---- MODULE Spec2Model ----
(***************************************************************************)
(* Model of the track dashboard: the CSV row normalizer (preprocessTracks, *)
(* toNumber, toBool, parseGenresTop), the merge performed by               *)
(* Dashboard.load, the top-K aggregation (topKGenres), the subsets the     *)
(* views derive (HeatmapView cells, ScatterView filtered) and the          *)
(* selection / hover state held by Dashboard.                              *)
(*                                                                         *)
(* JavaScript values are tagged tuples:                                    *)
(*   <<"undefined">>, <<"null">>, <<"boolean", b>>, <<"string", chars>>    *)
(*   <<"number", n>>  n an integer                                         *)
(*   <<"frac", n, d>> the finite number n/d, d not dividing n              *)
(*   <<"log10", n>>   the finite number log10(n), n > 0 not a power of 10  *)
(*   <<"NaN">>, <<"Infinity">>, <<"-Infinity">>                            *)
(* A string is the sequence of its characters, so that parsing is          *)
(* computed.  An object is a function from property names to values; a     *)
(* property that is not in the DOMAIN is a missing property.               *)
(***************************************************************************)
EXTENDS Integers, Sequences, FiniteSets, TLC

VARIABLES
    rows,             \* argument handed to preprocessTracks (normalizer runs)
    tracks,           \* value returned by preprocessTracks(rows)
    a, b,             \* the rows of the two CSV files, as d3.csv parses them
    loading,          \* Dashboard state: loading
    data,             \* Dashboard state: data (canonical dataset)
    selectedYear,     \* Dashboard state: selectedYear
    selectedGenre,    \* Dashboard state: selectedGenre
    selectedTrackId,  \* Dashboard state: selectedTrackId (the hovered id)
    fetchA, fetchB,   \* state of the two d3.csv promises
    pointerOver,      \* track id of the scatter point under the pointer, or null
    tooltip,          \* ScatterView state: the track the tooltip shows, or null
    ev,               \* the interaction callback that ran last, with its arguments
    rendered,         \* the props the views observed before and during that callback
    kArg,             \* argument k handed to topKGenres (topKGenres runs)
    topGenres,        \* <<>> before the call, then <<the Set topKGenres returned>>
    tipArgs,          \* arguments handed to computeTipPos (computeTipPos runs)
    tipPos            \* <<>> before the call, then <<view, the {x, y} returned>>

vars == <<rows, tracks, a, b, fetchA, fetchB, loading, data, selectedYear, selectedGenre,
          selectedTrackId, pointerOver, tooltip, ev, rendered, kArg, topGenres,
          tipArgs, tipPos>>

----------------------------------------------------------------------------
(* JavaScript values *)

Undefined == <<"undefined">>
Null      == <<"null">>
NaN       == <<"NaN">>
PosInf    == <<"Infinity">>
NegInf    == <<"-Infinity">>
Num(n)    == <<"number", n>>
Bool(x)   == <<"boolean", x>>
Str(cs)   == <<"string", cs>>

TypeOf(x) == x[1]

\* x == null  (true of null and undefined)
IsNullish(x) == TypeOf(x) \in {"undefined", "null"}

\* Number.isFinite(x)
IsFinite(x) == TypeOf(x) \in {"number", "frac", "log10"}

\* o.p : the property, or undefined when the object has no such property
Get(o, p) == IF p \in DOMAIN o THEN o[p] ELSE Undefined

\* { ...under, ...over }
Spread(under, over) == over @@ under

----------------------------------------------------------------------------
(* Strings *)

WhiteSpace == {" "}
Digits     == <<"0", "1", "2", "3", "4", "5", "6", "7", "8", "9">>
DigitSet   == {Digits[i] : i \in 1..10}

DigitVal(c) == (CHOOSE i \in 1..10 : Digits[i] = c) - 1

RECURSIVE DecVal(_)
DecVal(cs) ==
    IF cs = <<>> THEN 0
    ELSE DecVal(SubSeq(cs, 1, Len(cs) - 1)) * 10 + DigitVal(cs[Len(cs)])

RECURSIVE TrimStart(_)
TrimStart(cs) ==
    IF cs # <<>> /\ cs[1] \in WhiteSpace THEN TrimStart(Tail(cs)) ELSE cs

RECURSIVE TrimEnd(_)
TrimEnd(cs) ==
    IF cs # <<>> /\ cs[Len(cs)] \in WhiteSpace
    THEN TrimEnd(SubSeq(cs, 1, Len(cs) - 1)) ELSE cs

\* String.prototype.trim
Trim(cs) == TrimEnd(TrimStart(cs))

\* s.slice(0, n)
Slice0(cs, n) == SubSeq(cs, 1, IF Len(cs) < n THEN Len(cs) ELSE n)

\* s.replace(/^[set]/, "")
StripLeading(cs, set) ==
    IF cs # <<>> /\ cs[1] \in set THEN Tail(cs) ELSE cs

\* s.replace(/[set]$/, "")
StripTrailing(cs, set) ==
    IF cs # <<>> /\ cs[Len(cs)] \in set THEN SubSeq(cs, 1, Len(cs) - 1) ELSE cs

\* s.split(sep) : always at least one piece
RECURSIVE Split(_, _)
Split(cs, sep) ==
    IF \A i \in 1..Len(cs) : cs[i] # sep THEN <<cs>>
    ELSE LET i == CHOOSE j \in 1..Len(cs) :
                     cs[j] = sep /\ \A k \in 1..(j - 1) : cs[k] # sep
         IN  <<SubSeq(cs, 1, i - 1)>> \o Split(SubSeq(cs, i + 1, Len(cs)), sep)

LowerOf(c) ==
    CASE c = "T" -> "t" [] c = "R" -> "r" [] c = "U" -> "u" [] c = "E" -> "e"
      [] c = "F" -> "f" [] c = "A" -> "a" [] c = "L" -> "l" [] c = "S" -> "s"
      [] OTHER -> c

\* String.prototype.toLowerCase, on the letters that occur in the inputs
ToLowerCase(cs) == [i \in 1..Len(cs) |-> LowerOf(cs[i])]

InfinityChars == <<"I", "n", "f", "i", "n", "i", "t", "y">>

\* Number(s) for a string s: StringToNumber on the input alphabet (no
\* decimal point, exponent or radix prefix occurs in the inputs drawn below)
StringToNumber(cs) ==
    LET t    == Trim(cs)
        neg  == t # <<>> /\ t[1] = "-"
        body == IF t # <<>> /\ t[1] \in {"-", "+"} THEN Tail(t) ELSE t
    IN  IF t = <<>> THEN Num(0)
        ELSE IF body = InfinityChars THEN (IF neg THEN NegInf ELSE PosInf)
        ELSE IF body # <<>> /\ \A i \in 1..Len(body) : body[i] \in DigitSet
             THEN Num(IF neg THEN 0 - DecVal(body) ELSE DecVal(body))
        ELSE NaN

\* Number(x)
Number(x) ==
    CASE TypeOf(x) = "undefined" -> NaN
      [] TypeOf(x) = "null"      -> Num(0)
      [] TypeOf(x) = "boolean"   -> Num(IF x[2] THEN 1 ELSE 0)
      [] TypeOf(x) = "string"    -> StringToNumber(x[2])
      [] OTHER                   -> x

\* String(x) for the values a CSV cell can hold
StringOf(x) ==
    CASE TypeOf(x) = "string"    -> x[2]
      [] TypeOf(x) = "undefined" -> <<"u", "n", "d", "e", "f", "i", "n", "e", "d">>
      [] OTHER                   -> <<"n", "u", "l", "l">>

----------------------------------------------------------------------------
(* Arithmetic on the JavaScript numbers of the model *)

RECURSIVE Pow10Exp(_)
\* for n >= 1: the exponent e when n = 10^e, and -1 when n is no power of ten
Pow10Exp(n) ==
    IF n = 1 THEN 0
    ELSE IF n % 10 # 0 THEN 0 - 1
    ELSE LET e == Pow10Exp(n \div 10) IN IF e < 0 THEN e ELSE e + 1

\* Math.log10(v) for v an integer-valued number, NaN or an infinity
Log10(v) ==
    CASE TypeOf(v) = "number" ->
           IF v[2] < 0 THEN NaN
           ELSE IF v[2] = 0 THEN NegInf
           ELSE IF Pow10Exp(v[2]) >= 0 THEN Num(Pow10Exp(v[2]))
           ELSE <<"log10", v[2]>>
      [] TypeOf(v) = "Infinity" -> PosInf
      [] OTHER -> NaN

\* v + 1 for v a number
PlusOne(v) == IF TypeOf(v) = "number" THEN Num(v[2] + 1) ELSE v

\* v / d for v an integer-valued finite number and d a positive integer
DivBy(v, d) ==
    IF v[2] % d = 0 THEN Num(v[2] \div d) ELSE <<"frac", v[2], d>>

\* v >= 0 for v finite
NonNegative(v) ==
    CASE TypeOf(v) = "number" -> v[2] >= 0
      [] TypeOf(v) = "frac"   -> v[2] >= 0
      [] TypeOf(v) = "log10"  -> v[2] >= 1
      [] OTHER -> FALSE

----------------------------------------------------------------------------
(* utils/preprocess.ts *)

Unknown == Str(<<"U", "n", "k", "n", "o", "w", "n">>)
TrueChars == <<"t", "r", "u", "e">>

\* new Date().getFullYear()
currentYear == 2026

toNumberNoFallback(x, fallback) == Number(x)

toNumber(x, fallback) ==
    LET v == Number(x) IN IF IsFinite(v) THEN v ELSE fallback

followersLogNoPlusOne(followers) == Log10(followers)

\* Math.log10(followers + 1)
followersLogOf(followers) == Log10(PlusOne(followers))

toBool(x) ==
    CASE TypeOf(x) = "boolean" -> x
      [] TypeOf(x) = "string"  -> Bool(ToLowerCase(x[2]) = TrueChars)
      [] TypeOf(x) = "number"  -> Bool(x[2] # 0)
      [] OTHER                 -> Bool(IsFinite(x) \/ TypeOf(x) \in {"Infinity", "-Infinity"})

Quotes == {"'", "\""}

RECURSIVE FilterNonEmpty(_)
FilterNonEmpty(ps) ==
    IF ps = <<>> THEN <<>>
    ELSE IF Len(ps[1]) > 0 THEN <<ps[1]>> \o FilterNonEmpty(Tail(ps))
    ELSE FilterNonEmpty(Tail(ps))

parseGenresTopNoFilter(genresStr) ==
    IF genresStr = <<>> THEN Unknown
    ELSE LET s == Trim(genresStr) IN
         IF s = <<"[", "]">> \/ s = <<>> THEN Unknown
         ELSE LET inner == Trim(StripTrailing(StripLeading(s, {"["}), {"]"})) IN
              IF inner = <<>> THEN Unknown
              ELSE LET pieces == Split(inner, ",")
                       parts  == [i \in 1..Len(pieces) |->
                                      StripTrailing(StripLeading(Trim(pieces[i]), Quotes), Quotes)]
                   IN  IF parts = <<>> THEN Unknown ELSE Str(parts[1])

\* parseGenresTop(genresStr) for genresStr the characters of a string
parseGenresTop(genresStr) ==
    IF genresStr = <<>> THEN Unknown
    ELSE LET s == Trim(genresStr) IN
         IF s = <<"[", "]">> \/ s = <<>> THEN Unknown
         ELSE LET inner == Trim(StripTrailing(StripLeading(s, {"["}), {"]"})) IN
              IF inner = <<>> THEN Unknown
              ELSE LET pieces == Split(inner, ",")
                       parts  == FilterNonEmpty(
                                   [i \in 1..Len(pieces) |->
                                      StripTrailing(StripLeading(Trim(pieces[i]), Quotes), Quotes)])
                   IN  IF parts = <<>> THEN Unknown ELSE Str(parts[1])

releaseYearNoLowerBound(date) ==
    LET yearRaw == IF TypeOf(date) = "string" /\ Len(date[2]) >= 4
                   THEN Number(Str(Slice0(date[2], 4))) ELSE NaN
    IN  IF IsFinite(yearRaw) /\ yearRaw[2] <= currentYear + 1 THEN yearRaw ELSE Undefined

\* yearRaw and year of preprocessTracks, for date = r.album_release_date
releaseYearOf(date) ==
    LET yearRaw == IF TypeOf(date) = "string" /\ Len(date[2]) >= 4
                   THEN Number(Str(Slice0(date[2], 4))) ELSE NaN
    IN  IF IsFinite(yearRaw) /\ yearRaw[2] >= 1900 /\ yearRaw[2] <= currentYear + 1
        THEN yearRaw ELSE Undefined

\* the body of the rows.map callback of preprocessTracks, for one raw row r
preprocessRow(r) ==
    LET date    == Get(r, "album_release_date")
        year    == releaseYearOf(date)
        ms      == IF ~IsNullish(Get(r, "track_duration_ms"))
                   THEN toNumber(Get(r, "track_duration_ms"), NaN) ELSE NaN
        minFromMs  == IF IsFinite(ms) THEN DivBy(ms, 60000) ELSE NaN
        minFromCol == IF ~IsNullish(Get(r, "track_duration_min"))
                      THEN toNumber(Get(r, "track_duration_min"), NaN) ELSE NaN
        followers    == toNumber(Get(r, "artist_followers"), Num(0))
        followersLog == followersLogOf(followers)
        genres   == Get(r, "artist_genres")
        genreTop == parseGenresTop(IF IsNullish(genres) THEN <<>> ELSE StringOf(genres))
    IN  Spread(r,
          [ track_number       |-> toNumber(Get(r, "track_number"), Num(0)),
            track_popularity   |-> toNumber(Get(r, "track_popularity"), Num(0)),
            explicit           |-> toBool(Get(r, "explicit")),
            artist_popularity  |-> toNumber(Get(r, "artist_popularity"), Num(0)),
            artist_followers   |-> followers,
            album_total_tracks |-> toNumber(Get(r, "album_total_tracks"), Num(0)),
            track_duration_ms  |-> IF IsFinite(ms) THEN ms ELSE Undefined,
            track_duration_min |-> IF IsFinite(minFromCol) THEN minFromCol ELSE Undefined,
            release_year       |-> year,
            followers_log      |-> followersLog,
            duration_min       |-> IF IsFinite(minFromCol) THEN minFromCol
                                   ELSE IF IsFinite(minFromMs) THEN minFromMs ELSE Undefined,
            genre_top          |-> genreTop ])

preprocessTracks(rs) == [i \in 1..Len(rs) |-> preprocessRow(rs[i])]

----------------------------------------------------------------------------
(* Dashboard.load: normalize both sources, merge by track_id, prefer A.     *)
(* A Map is the sequence of its <<key, value>> entries in insertion order.  *)

MapHas(m, k) == \E i \in 1..Len(m) : m[i][1] = k

\* map.get(k)
MapGet(m, k) ==
    IF MapHas(m, k) THEN m[CHOOSE i \in 1..Len(m) : m[i][1] = k][2] ELSE Undefined

MapSetAppend(m, k, v) == Append(m, <<k, v>>)

\* map.set(k, v): an existing key keeps its position
MapSet(m, k, v) ==
    IF MapHas(m, k)
    THEN [i \in 1..Len(m) |-> IF m[i][1] = k THEN <<k, v>> ELSE m[i]]
    ELSE Append(m, <<k, v>>)

\* Array.from(map.values())
MapValues(m) == [i \in 1..Len(m) |-> m[i][2]]

RECURSIVE SeedFromB(_, _)
\* for (const r of B) map.set(r.track_id, r)
SeedFromB(m, B) ==
    IF B = <<>> THEN m
    ELSE SeedFromB(MapSet(m, Get(B[1], "track_id"), B[1]), Tail(B))

RECURSIVE MergeFromAMoveToEnd(_, _)
MergeFromAMoveToEnd(m, A) ==
    IF A = <<>> THEN m
    ELSE LET id   == Get(A[1], "track_id")
             prev == IF MapHas(m, id) THEN Spread(MapGet(m, id), A[1]) ELSE A[1]
             keep(e) == e[1] # id
         IN  MergeFromAMoveToEnd(Append(SelectSeq(m, keep), <<id, prev>>), Tail(A))

RECURSIVE MergeFromA(_, _)
\* for (const r of A) map.set(r.track_id, { ...map.get(r.track_id), ...r })
MergeFromA(m, A) ==
    IF A = <<>> THEN m
    ELSE LET id   == Get(A[1], "track_id")
             \* spreading undefined adds no property
             prev == IF MapHas(m, id) THEN Spread(MapGet(m, id), A[1]) ELSE A[1]
         IN  MergeFromA(MapSet(m, id, prev), Tail(A))

mergedDataAOnly(srcA, srcB) ==
    MapValues(MergeFromA(<<>>, preprocessTracks(srcA)))

\* the value handed to setData by load(), for fetched sources srcA and srcB
mergedData(srcA, srcB) ==
    MapValues(MergeFromA(SeedFromB(<<>>, preprocessTracks(srcB)), preprocessTracks(srcA)))

----------------------------------------------------------------------------
(* Inputs *)

MaxCols == 2      \* columns present in a raw row handed to the normalizer
MaxRowsA == 2     \* rows of source A in a load
MaxRowsB == 2     \* rows of source B in a load

NumericCols == {"track_number", "track_popularity", "artist_popularity",
                "artist_followers", "album_total_tracks"}

RawNumbers ==
    { Str(<<>>),
      Str(<<"a", "b", "c">>),
      Str(<<"-", "1">>),
      Str(<<"-", "5">>),
      Str(<<"9", "9", "9">>),
      Str(<<"4", "0">>),
      Str(<<"I", "n", "f", "i", "n", "i", "t", "y">>),
      Str(<<" ", "7", " ">>) }

RawDates ==
    { Str(<<>>),
      Str(<<"9", "9">>),
      Str(<<"1", "8", "9", "9", "-", "0", "1", "-", "0", "1">>),
      Str(<<"1", "9", "0", "0", "-", "0", "1", "-", "0", "1">>),
      Str(<<"2", "0", "2", "1", "-", "0", "5", "-", "0", "1">>),
      Str(<<"2", "0", "2", "7", "-", "1", "2", "-", "3", "1">>),
      Str(<<"2", "0", "2", "8", "-", "0", "1", "-", "0", "1">>),
      Str(<<"2", "9", "9", "9", "-", "0", "1", "-", "0", "1">>),
      Str(<<"a", "b", "c", "d", "-", "0", "1", "-", "0", "1">>) }

RawGenres ==
    { Str(<<>>),
      Str(<<" ", " ">>),
      Str(<<"[", "]">>),
      Str(<<"[", " ", "]">>),
      Str(<<"[", "'", "p", "o", "p", "'", ",", " ", "'", "d", "a", "n", "c", "e", " ", "p", "o", "p", "'", "]">>),
      Str(<<"[", "'", "H", "i", "p", "-", "H", "o", "p", "'", "]">>),
      Str(<<"[", "'", "'", ",", " ", "'", "r", "o", "c", "k", "'", "]">>),
      Str(<<"[", "\"", "j", "a", "z", "z", "\"", "]">>),
      Str(<<"p", "o", "p">>),
      Str(<<"[", "'", ",", "'", "]">>) }

RawMs ==
    { Str(<<>>),
      Str(<<"1", "2", "0", "0", "0", "0">>),
      Str(<<"9", "0", "0", "0", "1">>),
      Str(<<"a", "b", "c">>) }

RawMin ==
    { Str(<<>>),
      Str(<<"3">>),
      Str(<<"a", "b", "c">>) }

RawExplicit ==
    { Str(<<"T", "R", "U", "E">>),
      Str(<<"t", "r", "u", "e">>),
      Str(<<"f", "a", "l", "s", "e">>),
      Str(<<>>) }

RawIds ==
    { Str(<<"t", "1">>),
      Str(<<"t", "2">>) }

NormCols == NumericCols \cup {"track_id", "explicit", "artist_genres", "album_release_date",
                              "track_duration_ms", "track_duration_min"}

\* the texts a cell of column c holds in the rows handed to the normalizer
RawOf == [c \in NormCols |->
    CASE c \in NumericCols          -> RawNumbers
      [] c = "track_id"             -> RawIds
      [] c = "explicit"             -> RawExplicit
      [] c = "artist_genres"        -> RawGenres
      [] c = "album_release_date"   -> RawDates
      [] c = "track_duration_ms"    -> RawMs
      [] OTHER                      -> RawMin]

\* the rows over the columns cols, each cell drawn from cells[c]
RowsOver(cols, cells) ==
    LET all == UNION {cells[c] : c \in cols}
    IN  {r \in [cols -> all] : \A c \in cols : r[c] \in cells[c]}

\* raw rows with at least one and at most MaxCols columns present
RawRows ==
    UNION {RowsOver(cols, RawOf) :
             cols \in {cs \in SUBSET NormCols : cs # {} /\ Cardinality(cs) <= MaxCols}}

\* sequences of at most n elements of S
SeqsUpTo(S, n) == UNION {[1..k -> S] : k \in 0..n}

----------------------------------------------------------------------------
(* Views: what each view derives from data and the selection *)

Other == Str(<<"O", "t", "h", "e", "r">>)

\* d.genre_top ?? "Unknown"
GenreOrUnknown(d) ==
    IF IsNullish(Get(d, "genre_top")) THEN Unknown ELSE Get(d, "genre_top")

RECURSIVE CountGenres(_, _)
\* the counting pass: a Map genre -> count in first-encounter order
CountGenres(counts, ds) ==
    IF ds = <<>> THEN counts
    ELSE LET g == GenreOrUnknown(ds[1])
             n == IF MapHas(counts, g) THEN MapGet(counts, g) ELSE 0
         IN  CountGenres(MapSet(counts, g, n + 1), Tail(ds))

RECURSIVE InsertByCountTiesFirst(_, _)
InsertByCountTiesFirst(sorted, e) ==
    IF sorted = <<>> THEN <<e>>
    ELSE IF sorted[1][2] > e[2] THEN <<sorted[1]>> \o InsertByCountTiesFirst(Tail(sorted), e)
    ELSE <<e>> \o sorted

RECURSIVE InsertByCount(_, _)
\* insert entry e after every entry whose count is at least e's (stable)
InsertByCount(sorted, e) ==
    IF sorted = <<>> THEN <<e>>
    ELSE IF sorted[1][2] >= e[2] THEN <<sorted[1]>> \o InsertByCount(Tail(sorted), e)
    ELSE <<e>> \o sorted

RECURSIVE SortByCountDesc(_)
\* entries.sort((a, b) => b[1] - a[1]) : stable, descending by count
SortByCountDesc(entries) ==
    IF entries = <<>> THEN <<>>
    ELSE InsertByCount(SortByCountDesc(SubSeq(entries, 1, Len(entries) - 1)),
                       entries[Len(entries)])

\* topKGenres(ds, k)
topKGenres(ds, k) ==
    LET sorted == SortByCountDesc(CountGenres(<<>>, ds))
    IN  {sorted[i][1] : i \in 1..(IF Len(sorted) < k THEN Len(sorted) ELSE k)}

TopK == 10           \* the k every view passes
ScatterLimit == 2500 \* rows.slice(0, 2500)

\* HeatmapView: rows with a release year and a genre
HeatmapRows(ds) ==
    LET keep(d) == ~IsNullish(Get(d, "release_year")) /\ ~IsNullish(Get(d, "genre_top"))
    IN  SelectSeq(ds, keep)

RECURSIVE GroupByGenre(_, _)
\* d3.rollups, grouping pass: an InternMap genre_top -> rows, in first-encounter order
GroupByGenre(groups, ds) ==
    IF ds = <<>> THEN groups
    ELSE LET g == Get(ds[1], "genre_top")
             v == IF MapHas(groups, g) THEN MapGet(groups, g) ELSE <<>>
         IN  GroupByGenre(MapSet(groups, g, Append(v, ds[1])), Tail(ds))

\* d3.rollups(filtered, v => v.length, d => d.genre_top)
Rollups(ds) ==
    LET groups == GroupByGenre(<<>>, ds)
    IN  [i \in 1..Len(groups) |-> <<groups[i][1], Len(groups[i][2])>>]

d3Ascending(x, y) == IF x < y THEN 0 - 1 ELSE IF x > y THEN 1 ELSE 0

\* d3.descending(x, y) on counts
d3Descending(x, y) == IF y < x THEN 0 - 1 ELSE IF y > x THEN 1 ELSE 0

RECURSIVE InsertDescending(_, _)
\* insert entry e after every entry the comparator does not place after e (stable)
InsertDescending(sorted, e) ==
    IF sorted = <<>> THEN <<e>>
    ELSE IF d3Descending(sorted[1][2], e[2]) <= 0
         THEN <<sorted[1]>> \o InsertDescending(Tail(sorted), e)
    ELSE <<e>> \o sorted

RECURSIVE SortDescending(_)
\* counts.sort((a, b) => d3.descending(a[1], b[1]))
SortDescending(entries) ==
    IF entries = <<>> THEN <<>>
    ELSE InsertDescending(SortDescending(SubSeq(entries, 1, Len(entries) - 1)),
                          entries[Len(entries)])

\* HeatmapView: new Set(counts.slice(0, k).map(x => x[0])) for the rows it kept
HeatmapTopOf(filtered, k) ==
    LET counts == SortDescending(Rollups(filtered))
    IN  {counts[i][1] : i \in 1..(IF Len(counts) < k THEN Len(counts) ELSE k)}

\* HeatmapView: the top 10 computed across all years (rollups, sort, slice)
HeatmapTop(ds) == HeatmapTopOf(HeatmapRows(ds), TopK)

\* HeatmapView: the bucket of a row, its genre_top or "Other"
HeatmapBucket(ds, d) ==
    IF Get(d, "genre_top") \in HeatmapTop(ds) THEN Get(d, "genre_top") ELSE Other

\* HeatmapView: the years on the x axis and the genres on the y axis
HeatmapYears(ds) ==
    LET f == HeatmapRows(ds) IN {f[i]["release_year"] : i \in 1..Len(f)}

HeatmapGenres(ds) ==
    LET f   == HeatmapRows(ds)
        top == HeatmapTop(ds)
    IN  {IF Get(f[i], "genre_top") \in top THEN Get(f[i], "genre_top") ELSE Other : i \in 1..Len(f)}

\* HeatmapView: one rect per (year, genre), each with onClick = onSelect(yr, g)
HeatmapCells(ds) == HeatmapYears(ds) \X HeatmapGenres(ds)

\* ScatterView filtered: the valid rows, narrowed to the selected year
ScatterYearRows(ds, year) ==
    LET valid(d)  == /\ ~IsNullish(Get(d, "followers_log"))
                     /\ IsFinite(Get(d, "followers_log"))
                     /\ ~IsNullish(Get(d, "track_popularity"))
                     /\ IsFinite(Get(d, "track_popularity"))
        inYear(d) == Get(d, "release_year") = year
        rows0     == SelectSeq(ds, valid)
    IN  IF ~IsNullish(year) THEN SelectSeq(rows0, inYear) ELSE rows0

\* ScatterView filtered: mapped = top.has(g) ? g : "Other", top taken over the rows above
ScatterBucket(ds, year, d) ==
    IF GenreOrUnknown(d) \in topKGenres(ScatterYearRows(ds, year), TopK)
    THEN GenreOrUnknown(d) ELSE Other

\* ScatterView filtered, before rows.slice(0, 2500)
ScatterMatched(ds, year, genre) ==
    LET rows1      == ScatterYearRows(ds, year)
        top        == topKGenres(rows1, TopK)
        inGenre(d) == (IF GenreOrUnknown(d) \in top THEN GenreOrUnknown(d) ELSE Other) = genre
    IN  IF ~IsNullish(genre) THEN SelectSeq(rows1, inGenre) ELSE rows1

\* ScatterView: filtered
ScatterFiltered(ds, year, genre) == Slice0(ScatterMatched(ds, year, genre), ScatterLimit)

\* ScatterView: the track ids of the points that carry the pointer handlers
ScatterPointIds(ds, year, genre) ==
    LET f == ScatterFiltered(ds, year, genre) IN {Get(f[i], "track_id") : i \in 1..Len(f)}

PCLimit == 200   \* .slice(0, 200)

\* ParallelCoordsView sample: the rows with both axes' values, narrowed to the selected year
PCYearRows(ds, year) ==
    LET valid(d)  == ~IsNullish(Get(d, "followers_log")) /\ ~IsNullish(Get(d, "duration_min"))
        inYear(d) == Get(d, "release_year") = year
        rows0     == SelectSeq(ds, valid)
    IN  IF ~IsNullish(year) THEN SelectSeq(rows0, inYear) ELSE rows0

\* ParallelCoordsView sample: mapped = top.has(g) ? g : "Other", top taken over the rows above
PCBucket(ds, year, d) ==
    IF GenreOrUnknown(d) \in topKGenres(PCYearRows(ds, year), TopK)
    THEN GenreOrUnknown(d) ELSE Other

\* ParallelCoordsView sample, before the sort and .slice(0, 200)
PCMatched(ds, year, genre) ==
    LET rows1      == PCYearRows(ds, year)
        top        == topKGenres(rows1, TopK)
        inGenre(d) == (IF GenreOrUnknown(d) \in top THEN GenreOrUnknown(d) ELSE Other) = genre
    IN  IF ~IsNullish(genre) THEN SelectSeq(rows1, inGenre) ELSE rows1

\* d.track_popularity ?? 0
PopularityOrZero(d) ==
    IF IsNullish(Get(d, "track_popularity")) THEN 0 ELSE Get(d, "track_popularity")[2]

RECURSIVE InsertByPopularity(_, _)
\* insert row e after every row whose popularity is at least e's (stable)
InsertByPopularity(sorted, e) ==
    IF sorted = <<>> THEN <<e>>
    ELSE IF PopularityOrZero(sorted[1]) >= PopularityOrZero(e)
         THEN <<sorted[1]>> \o InsertByPopularity(Tail(sorted), e)
    ELSE <<e>> \o sorted

RECURSIVE SortByPopularityDesc(_)
\* .sort((a, b) => (b.track_popularity ?? 0) - (a.track_popularity ?? 0))
SortByPopularityDesc(ds) ==
    IF ds = <<>> THEN <<>>
    ELSE InsertByPopularity(SortByPopularityDesc(SubSeq(ds, 1, Len(ds) - 1)), ds[Len(ds)])

\* ParallelCoordsView: sample
PCSample(ds, year, genre) ==
    Slice0(SortByPopularityDesc(PCMatched(ds, year, genre)), PCLimit)

\* ParallelCoordsView: the track ids of the polylines drawn
PCLineIds(ds, year, genre) ==
    LET f == PCSample(ds, year, genre) IN {Get(f[i], "track_id") : i \in 1..Len(f)}

\* ScatterView: the opacity of the point of row d, in hundredths
ScatterOpacity(sel, d) ==
    LET hasHover == ~IsNullish(sel) /\ sel # Str(<<>>)
    IN  IF ~hasHover THEN 65 ELSE IF Get(d, "track_id") = sel THEN 95 ELSE 8

PCOpacityAllEmphasized(sel, d) ==
    IF ~IsNullish(sel) /\ sel # Str(<<>>) THEN 85 ELSE 22

\* ParallelCoordsView: the opacity of the polyline of row d, in hundredths
PCOpacity(sel, d) ==
    LET isSel == ~IsNullish(sel) /\ Get(d, "track_id") = sel
    IN  IF ~IsNullish(sel) /\ sel # Str(<<>>) THEN (IF isSel THEN 85 ELSE 6) ELSE 22

----------------------------------------------------------------------------
(* Sources of a load *)

LoadCols == {"track_id", "artist_followers", "artist_popularity", "track_duration_ms"}

\* the texts a cell of column c holds in the sources of a load
LoadOf == [c \in LoadCols |->
    CASE c = "track_id"          -> RawIds
      [] c = "artist_followers"  -> {Str(<<"9", "9", "9">>)}
      [] c = "artist_popularity" -> {Str(<<"4", "0">>), Str(<<"8", "0">>)}
      [] OTHER                   -> {Str(<<"6", "0", "0", "0", "0">>)}]

\* a parsed CSV file: every row carries the columns of the header
SourcesUpTo(colsets, cells, n) ==
    UNION {SeqsUpTo(RowsOver(cols, cells), n) : cols \in colsets}

LoadSourcesA == SourcesUpTo(SUBSET LoadCols \ {{}}, LoadOf, MaxRowsA)
LoadSourcesB == SourcesUpTo(SUBSET LoadCols \ {{}}, LoadOf, MaxRowsB)

MaxDashRows == 2   \* rows of source A under the dashboard

DashCols == {"track_id", "album_release_date", "artist_genres"}

DashOf == [c \in DashCols |->
    CASE c = "track_id"           -> RawIds
      [] c = "album_release_date" -> {Str(<<"2", "0", "2", "1", "-", "0", "5", "-", "0", "1">>), Str(<<"2", "0", "2", "0", "-", "0", "1", "-", "0", "1">>)}
      [] OTHER                    -> {Str(<<"[", "'", "p", "o", "p", "'", ",", " ", "'", "d", "a", "n", "c", "e", " ", "p", "o", "p", "'", "]">>), Str(<<"[", "'", "H", "i", "p", "-", "H", "o", "p", "'", "]">>)}]

DashOfB == [c \in DashCols |->
    CASE c = "track_id"           -> {Str(<<"t", "3">>)}
      [] c = "album_release_date" -> {Str(<<"2", "0", "2", "0", "-", "0", "1", "-", "0", "1">>), Str(<<"9", "9">>)}
      [] OTHER                    -> {Str(<<"[", "'", "p", "o", "p", "'", ",", " ", "'", "d", "a", "n", "c", "e", " ", "p", "o", "p", "'", "]">>)}]

DashSourcesA == SourcesUpTo({DashCols}, DashOf, MaxDashRows)
DashSourcesB == SourcesUpTo({DashCols}, DashOfB, 1)

MaxViewRows == 2   \* rows of source A under the three views

ViewCols == DashCols \cup {"track_duration_ms"}

\* cells of source A under the three views: a track_id cell may be empty, a
\* duration cell holds a number or a text
ViewOf == [c \in ViewCols |->
    CASE c = "track_id"           -> {Str(<<"t", "1">>), Str(<<>>)}
      [] c = "album_release_date" -> {Str(<<"2", "0", "2", "1", "-", "0", "5", "-", "0", "1">>)}
      [] c = "artist_genres"      -> {Str(<<"[", "'", "p", "o", "p", "'", ",", " ", "'", "d", "a", "n", "c", "e", " ", "p", "o", "p", "'", "]">>), Str(<<"[", "'", "H", "i", "p", "-", "H", "o", "p", "'", "]">>)}
      [] OTHER                    -> {Str(<<"6", "0", "0", "0", "0">>), Str(<<"n", "/", "a">>)}]

ViewSourcesA == SourcesUpTo({ViewCols}, ViewOf, MaxViewRows)

RECURSIVE DecChars(_)
\* the decimal digits of n >= 0
DecChars(n) ==
    IF n < 10 THEN <<Digits[n + 1]>> ELSE DecChars(n \div 10) \o <<Digits[(n % 10) + 1]>>

HeatmapCellOpacityYearOnly(year, genre, yr, g) ==
    LET hasSel   == ~IsNullish(year) /\ ~IsNullish(genre)
        dataYear == Str(DecChars(yr[2]))
    IN  IF ~hasSel THEN 100
        ELSE IF Number(dataYear) = year THEN 100 ELSE 25

\* HeatmapView selection effect: the opacity, in hundredths, of the rect of
\* cell (yr, g), read back from its data-year and data-genre attributes
HeatmapCellOpacity(year, genre, yr, g) ==
    LET hasSel    == ~IsNullish(year) /\ ~IsNullish(genre)
        dataYear  == Str(DecChars(yr[2]))
        dataGenre == Str(StringOf(g))
    IN  IF ~hasSel THEN 100
        ELSE IF Number(dataYear) = year /\ dataGenre = genre THEN 100 ELSE 25

\* a parsed CSV file with one more genre than the views keep: tracks t1 .. t11
\* of 2021 with genres g1 .. g11, and a track t12 of 2020 with genre g11
LongTail ==
    [i \in 1..(TopK + 2) |->
        [track_id           |-> Str(<<"t">> \o DecChars(i)),
         album_release_date |-> IF i <= TopK + 1 THEN Str(<<"2", "0", "2", "1", "-", "0", "5", "-", "0", "1">>) ELSE Str(<<"2", "0", "2", "0", "-", "0", "1", "-", "0", "1">>),
         artist_genres      |-> Str(<<"g">> \o DecChars(IF i <= TopK + 1 THEN i ELSE TopK + 1)),
         track_duration_ms  |-> Str(<<"6", "0", "0", "0", "0">>)]]

----------------------------------------------------------------------------
(* Dashboard state and callbacks *)

\* the props Dashboard hands to the three views
Props ==
    [selectedYear |-> selectedYear, selectedGenre |-> selectedGenre,
     selectedTrackId |-> selectedTrackId]

RECURSIVE ApplyUpdates(_, _)
\* the state after the queued setter calls ups, each a <<field, value>>
ApplyUpdates(st, ups) ==
    IF ups = <<>> THEN st
    ELSE ApplyUpdates([st EXCEPT ![ups[1][1]] = ups[1][2]], Tail(ups))

CommitEach(st, ups) ==
    <<st>> \o [i \in 1..Len(ups) |-> ApplyUpdates(st, SubSeq(ups, 1, i))]

\* the props the views observe around one callback: those of the render
\* before it, then one render with all its setter calls applied (the setter
\* calls of one event handler are batched)
Commit(st, ups) == <<st, ApplyUpdates(st, ups)>>

onSelectYearOnly(year, genre) ==
    LET same == year = selectedYear
    IN  << <<"selectedYear",  IF same THEN Null ELSE year>>,
           <<"selectedGenre", IF same THEN Null ELSE genre>> >>

onSelectGenreKept(year, genre) ==
    LET same == year = selectedYear /\ genre = selectedGenre
    IN  << <<"selectedYear",  IF same THEN Null ELSE year>>,
           <<"selectedGenre", genre>> >>

\* HeatmapView onSelect: the setter calls of one click on cell (year, genre)
onSelect(year, genre) ==
    LET same == year = selectedYear /\ genre = selectedGenre
    IN  << <<"selectedYear",  IF same THEN Null ELSE year>>,
           <<"selectedGenre", IF same THEN Null ELSE genre>> >>

onHoverKeepOnNull(id) ==
    << <<"selectedTrackId", IF id = Null THEN selectedTrackId ELSE id>> >>

\* ScatterView onHoverTrackId = setSelectedTrackId
onHoverTrackId(id) == << <<"selectedTrackId", id>> >>

Idle ==
    /\ selectedYear = Null /\ selectedGenre = Null /\ selectedTrackId = Null
    /\ pointerOver = Null /\ tooltip = Null
    /\ ev = <<"none">> /\ rendered = <<>>

NotLoadedShown ==
    /\ fetchA = "idle" /\ fetchB = "idle"
    /\ loading = FALSE /\ data = <<>>

NotLoaded ==
    /\ fetchA = "idle" /\ fetchB = "idle"
    /\ loading = TRUE /\ data = <<>>

\* topKGenres has not been called
NoTopK == kArg = 0 /\ topGenres = <<>>

\* computeTipPos has not been called
NoTip == tipArgs = <<>> /\ tipPos = <<>>

StartLoadAgain ==
    /\ (fetchA = "idle" /\ fetchB = "idle") \/ ~loading
    /\ loading' = TRUE
    /\ fetchA' = "pending" /\ fetchB' = "pending"
    /\ UNCHANGED <<rows, tracks, a, b, data, selectedYear, selectedGenre,
                   selectedTrackId, pointerOver, tooltip, ev, rendered>>
    /\ UNCHANGED <<kArg, topGenres, tipArgs, tipPos>>

\* the effect runs load() up to its await: setLoading(true), then both
\* d3.csv calls of the array handed to Promise.all
StartLoad ==
    /\ fetchA = "idle" /\ fetchB = "idle"
    /\ loading' = TRUE
    /\ fetchA' = "pending" /\ fetchB' = "pending"
    /\ UNCHANGED <<rows, tracks, a, b, data, selectedYear, selectedGenre,
                   selectedTrackId, pointerOver, tooltip, ev, rendered>>
    /\ UNCHANGED <<kArg, topGenres, tipArgs, tipPos>>

Settles == {"fulfilled", "rejected"}

FetchSettleRetry(src, outcome) ==
    /\ loading
    /\ \/ src = "A" /\ fetchA \in {"pending", "rejected"} /\ fetchA' = outcome /\ UNCHANGED fetchB
       \/ src = "B" /\ fetchB \in {"pending", "rejected"} /\ fetchB' = outcome /\ UNCHANGED fetchA
    /\ UNCHANGED <<rows, tracks, a, b, loading, data, selectedYear, selectedGenre,
                   selectedTrackId, pointerOver, tooltip, ev, rendered>>
    /\ UNCHANGED <<kArg, topGenres, tipArgs, tipPos>>

\* one d3.csv promise settles
FetchSettle(src, outcome) ==
    /\ loading
    /\ \/ src = "A" /\ fetchA = "pending" /\ fetchA' = outcome /\ UNCHANGED fetchB
       \/ src = "B" /\ fetchB = "pending" /\ fetchB' = outcome /\ UNCHANGED fetchA
    /\ UNCHANGED <<rows, tracks, a, b, loading, data, selectedYear, selectedGenre,
                   selectedTrackId, pointerOver, tooltip, ev, rendered>>
    /\ UNCHANGED <<kArg, topGenres, tipArgs, tipPos>>

LoadAfterA ==
    /\ loading
    /\ fetchA = "fulfilled" /\ fetchB \in {"pending", "fulfilled"}
    /\ data' = mergedData(a, IF fetchB = "fulfilled" THEN b ELSE <<>>)
    /\ loading' = FALSE
    /\ UNCHANGED <<rows, tracks, a, b, fetchA, fetchB, selectedYear, selectedGenre,
                   selectedTrackId, pointerOver, tooltip, ev, rendered>>
    /\ UNCHANGED <<kArg, topGenres, tipArgs, tipPos>>

\* load() after await Promise.all: normalize, merge, setData, setLoading(false)
Load ==
    /\ loading
    /\ fetchA = "fulfilled" /\ fetchB = "fulfilled"
    /\ data' = mergedData(a, b)
    /\ loading' = FALSE
    /\ UNCHANGED <<rows, tracks, a, b, fetchA, fetchB, selectedYear, selectedGenre,
                   selectedTrackId, pointerOver, tooltip, ev, rendered>>
    /\ UNCHANGED <<kArg, topGenres, tipArgs, tipPos>>

SelectCellStoresFiltered(year, genre) ==
    /\ ~loading
    /\ <<year, genre>> \in HeatmapCells(data)
    /\ LET r    == Commit(Props, onSelect(year, genre))
           last == r[Len(r)]
       IN  /\ rendered' = r
           /\ selectedYear' = last.selectedYear
           /\ selectedGenre' = last.selectedGenre
           /\ selectedTrackId' = last.selectedTrackId
           /\ data' = ScatterFiltered(data, last.selectedYear, last.selectedGenre)
           /\ pointerOver' =
                IF pointerOver \in ScatterPointIds(data, last.selectedYear, last.selectedGenre)
                THEN pointerOver ELSE Null
    /\ ev' = <<"click", year, genre>>
    /\ UNCHANGED <<rows, tracks, a, b, fetchA, fetchB, loading, tooltip>>
    /\ UNCHANGED <<kArg, topGenres, tipArgs, tipPos>>

\* click on the heatmap cell (year, genre)
SelectCell(year, genre) ==
    /\ ~loading
    /\ <<year, genre>> \in HeatmapCells(data)
    /\ LET r    == Commit(Props, onSelect(year, genre))
           last == r[Len(r)]
       IN  /\ rendered' = r
           /\ selectedYear' = last.selectedYear
           /\ selectedGenre' = last.selectedGenre
           /\ selectedTrackId' = last.selectedTrackId
           \* a point that the new filter removes is no longer under the pointer
           /\ pointerOver' =
                IF pointerOver \in ScatterPointIds(data, last.selectedYear, last.selectedGenre)
                THEN pointerOver ELSE Null
    /\ ev' = <<"click", year, genre>>
    /\ UNCHANGED <<rows, tracks, a, b, fetchA, fetchB, loading, data, tooltip>>
    /\ UNCHANGED <<kArg, topGenres, tipArgs, tipPos>>

\* pointerenter on the scatter point of track id
PointerEnter(id) ==
    /\ ~loading
    /\ pointerOver = Null
    /\ id \in ScatterPointIds(data, selectedYear, selectedGenre)
    /\ LET r    == Commit(Props, onHoverTrackId(id))
           last == r[Len(r)]
       IN  /\ rendered' = r
           /\ selectedYear' = last.selectedYear
           /\ selectedGenre' = last.selectedGenre
           /\ selectedTrackId' = last.selectedTrackId
    /\ tooltip' = id
    /\ pointerOver' = id
    /\ ev' = <<"hover", id>>
    /\ UNCHANGED <<rows, tracks, a, b, fetchA, fetchB, loading, data>>
    /\ UNCHANGED <<kArg, topGenres, tipArgs, tipPos>>

\* pointerleave on the scatter point under the pointer
PointerLeave ==
    /\ ~loading
    /\ pointerOver # Null
    /\ LET r    == Commit(Props, onHoverTrackId(Null))
           last == r[Len(r)]
       IN  /\ rendered' = r
           /\ selectedYear' = last.selectedYear
           /\ selectedGenre' = last.selectedGenre
           /\ selectedTrackId' = last.selectedTrackId
    /\ tooltip' = Null
    /\ pointerOver' = Null
    /\ ev' = <<"hover", Null>>
    /\ UNCHANGED <<rows, tracks, a, b, fetchA, fetchB, loading, data>>
    /\ UNCHANGED <<kArg, topGenres, tipArgs, tipPos>>

Init ==
    /\ rows = <<>> /\ tracks = <<>>
    /\ a \in DashSourcesA /\ b \in DashSourcesB
    /\ NotLoaded /\ Idle /\ NoTopK /\ NoTip

Next ==
    \/ StartLoad
    \/ \E src \in {"A", "B"}, outcome \in Settles : FetchSettle(src, outcome)
    \/ Load
    \/ \E cell \in HeatmapCells(data) : SelectCell(cell[1], cell[2])
    \/ \E id \in ScatterPointIds(data, selectedYear, selectedGenre) : PointerEnter(id)
    \/ PointerLeave

Spec == Init /\ [][Next]_vars

MaxLiveRows == 1   \* rows of source A under the fair dashboard

\* the dashboard with its scheduling: the mount effect runs, and the code
\* after the await runs once Promise.all has fulfilled; nothing makes a
\* fetch settle
InitLive ==
    /\ rows = <<>> /\ tracks = <<>>
    /\ a \in SourcesUpTo({DashCols}, DashOf, MaxLiveRows) /\ b \in DashSourcesB
    /\ NotLoaded /\ Idle /\ NoTopK /\ NoTip

\* ENABLED <<Load>>_vars: Load can run, and it always changes loading
LoadEnabled == loading /\ fetchA = "fulfilled" /\ fetchB = "fulfilled"

\* WF_vars(Load), written out with LoadEnabled for ENABLED <<Load>>_vars
LoadFair == []<>(~LoadEnabled) \/ []<><<Load>>_vars

SpecLive == InitLive /\ [][Next]_vars /\ WF_vars(StartLoad) /\ LoadFair

----------------------------------------------------------------------------
(* The load pipeline alone, over sources with missing columns and repeated ids *)

InitLoad ==
    /\ rows = <<>> /\ tracks = <<>>
    /\ a \in LoadSourcesA /\ b \in LoadSourcesB
    /\ NotLoaded /\ Idle /\ NoTopK /\ NoTip

NextLoad ==
    \/ StartLoad
    \/ \E src \in {"A", "B"}, outcome \in Settles : FetchSettle(src, outcome)
    \/ Load

SpecLoad == InitLoad /\ [][NextLoad]_vars

----------------------------------------------------------------------------
(* The load pipeline over sources that differ in their genre and date columns *)

MaxDerivedRows == 1

DerivedCols == {"track_id", "artist_genres", "album_release_date"}

DerivedOf == [c \in DerivedCols |->
    CASE c = "track_id"      -> {Str(<<"t", "1">>)}
      [] c = "artist_genres" -> {Str(<<"[", "'", "p", "o", "p", "'", ",", " ", "'", "d", "a", "n", "c", "e", " ", "p", "o", "p", "'", "]">>)}
      [] OTHER               -> {Str(<<"2", "0", "2", "1", "-", "0", "5", "-", "0", "1">>)}]

DerivedSources == SourcesUpTo(SUBSET DerivedCols \ {{}}, DerivedOf, MaxDerivedRows)

InitDerived ==
    /\ rows = <<>> /\ tracks = <<>>
    /\ a \in DerivedSources /\ b \in DerivedSources
    /\ NotLoaded /\ Idle /\ NoTopK /\ NoTip

SpecDerived == InitDerived /\ [][NextLoad]_vars

----------------------------------------------------------------------------
(* The dashboard over sources with duration cells and over a long tail of genres *)

InitViews ==
    /\ rows = <<>> /\ tracks = <<>>
    /\ \/ a \in ViewSourcesA /\ b \in DashSourcesB
       \/ a = LongTail /\ b = <<>>
    /\ NotLoaded /\ Idle /\ NoTopK /\ NoTip

SpecViews == InitViews /\ [][Next]_vars

----------------------------------------------------------------------------
(* The normalizer alone, over raw rows *)

\* preprocessTracks(rows)
Preprocess ==
    /\ rows # <<>> /\ tracks = <<>>
    /\ tracks' = preprocessTracks(rows)
    /\ UNCHANGED <<rows, a, b, fetchA, fetchB, loading, data, selectedYear, selectedGenre,
                   selectedTrackId, pointerOver, tooltip, ev, rendered>>
    /\ UNCHANGED <<kArg, topGenres, tipArgs, tipPos>>

InitNorm ==
    /\ rows \in {<<r>> : r \in RawRows} /\ tracks = <<>>
    /\ a = <<>> /\ b = <<>>
    /\ NotLoaded /\ Idle /\ NoTopK /\ NoTip

NextNorm == Preprocess

SpecNorm == InitNorm /\ [][NextNorm]_vars

----------------------------------------------------------------------------
(* topKGenres alone, over lists of rows and values of k *)

MaxTopRows == 6
MaxTopK == 4

GenreA == Str(<<"a">>)
GenreB == Str(<<"b">>)
GenreC == Str(<<"c">>)

\* rows with a genre_top, and one row without (counted as "Unknown")
TopRows == {[genre_top |-> g] : g \in {GenreA, GenreB, GenreC}} \cup {[track_id |-> Str(<<"t", "1">>)]}

\* topKGenres(tracks, kArg)
TopKCall ==
    /\ topGenres = <<>>
    /\ topGenres' = <<topKGenres(tracks, kArg)>>
    /\ UNCHANGED <<rows, tracks, a, b, fetchA, fetchB, loading, data, selectedYear,
                   selectedGenre, selectedTrackId, pointerOver, tooltip, ev, rendered, kArg>>
    /\ UNCHANGED <<tipArgs, tipPos>>

InitTopK ==
    /\ rows = <<>> /\ tracks \in SeqsUpTo(TopRows, MaxTopRows)
    /\ a = <<>> /\ b = <<>>
    /\ NotLoaded /\ Idle
    /\ kArg \in 0..MaxTopK /\ topGenres = <<>>
    /\ NoTip

NextTopK == TopKCall

SpecTopK == InitTopK /\ [][NextTopK]_vars

----------------------------------------------------------------------------
(* computeTipPos alone, over pointer positions, container sizes and tooltip sizes *)

Max(x, y) == IF x >= y THEN x ELSE y
Min(x, y) == IF x <= y THEN x ELSE y

\* ScatterView.computeTipPos(event, container, tipW, tipH)
computeTipPos(event, container, tipW, tipH) ==
    LET pad == 12
        x0  == event.clientX - container.left + pad
        y0  == event.clientY - container.top + pad
        x1  == IF x0 + tipW + pad > container.width
               THEN event.clientX - container.left - tipW - pad ELSE x0
        y1  == IF y0 + tipH + pad > container.height
               THEN event.clientY - container.top - tipH - pad ELSE y0
    IN  [x |-> Max(pad, Min(x1, container.width - tipW - pad)),
         y |-> Max(pad, Min(y1, container.height - tipH - pad))]

\* HeatmapView.computeTipPos(evt, container, tipW, tipH)
heatmapComputeTipPos(evt, container, tipW, tipH) ==
    LET pad == 12
        x0  == evt.clientX - container.left + pad
        y0  == evt.clientY - container.top + pad
        x1  == IF x0 + tipW + pad > container.width
               THEN evt.clientX - container.left - tipW - pad ELSE x0
        y1  == IF y0 + tipH + pad > container.height
               THEN evt.clientY - container.top - tipH - pad ELSE y0
    IN  [x |-> Max(pad, Min(x1, container.width - tipW - pad)),
         y |-> Max(pad, Min(y1, container.height - tipH - pad))]

SideStep == 6        \* container and tooltip sides, pointer offsets: multiples of SideStep
MaxSideSteps == 6    \* container sides up to MaxSideSteps * SideStep
MaxTipSteps == 4     \* tooltip sides up to MaxTipSteps * SideStep

Sides == {k * SideStep : k \in 0..MaxSideSteps}
TipSides == {k * SideStep : k \in 1..MaxTipSteps}
Origins == {0, 5}    \* container.left, container.top

\* a pointer event inside a container, and a tooltip size
TipInputs ==
    {[event |-> [clientX |-> l + px, clientY |-> t + py],
      container |-> [left |-> l, top |-> t, width |-> w, height |-> h],
      tipW |-> tw, tipH |-> th] :
        <<l, t, w, h, px, py, tw, th>> \in
           {q \in Origins \X Origins \X Sides \X Sides \X Sides \X Sides \X TipSides \X TipSides :
                q[5] <= q[3] /\ q[6] <= q[4]}}

\* a pointer handler of the view calls computeTipPos
TipPlace(view) ==
    /\ tipPos = <<>>
    /\ tipPos' = <<view,
                   IF view = "scatter"
                   THEN computeTipPos(tipArgs.event, tipArgs.container, tipArgs.tipW, tipArgs.tipH)
                   ELSE heatmapComputeTipPos(tipArgs.event, tipArgs.container, tipArgs.tipW, tipArgs.tipH)>>
    /\ UNCHANGED <<rows, tracks, a, b, fetchA, fetchB, loading, data, selectedYear,
                   selectedGenre, selectedTrackId, pointerOver, tooltip, ev, rendered>>
    /\ UNCHANGED <<kArg, topGenres, tipArgs>>

InitTip ==
    /\ rows = <<>> /\ tracks = <<>>
    /\ a = <<>> /\ b = <<>>
    /\ NotLoaded /\ Idle /\ NoTopK
    /\ tipArgs \in TipInputs /\ tipPos = <<>>

NextTip == \E view \in {"scatter", "heatmap"} : TipPlace(view)

SpecTip == InitTip /\ [][NextTip]_vars

----------------------------------------------------------------------------
(* Selection state (Spec) *)

\* C1: selectCell transition rule. Every click on a heatmap cell (year, genre)
\* ends with no selection when (year, genre) is the current selection, and
\* with the selection (year, genre) otherwise.
C1_SelectCellRule ==
    [][ev'[1] = "click" =>
         IF ev'[2] = selectedYear /\ ev'[3] = selectedGenre
         THEN selectedYear' = Null /\ selectedGenre' = Null
         ELSE selectedYear' = ev'[2] /\ selectedGenre' = ev'[3]]_vars

\* a click on the selected cell has cleared the selection
C1_ToggledOff ==
    /\ ev[1] = "click"
    /\ rendered[1].selectedYear = ev[2] /\ rendered[1].selectedGenre = ev[3]
    /\ selectedYear = Null /\ selectedGenre = Null

\* C2: pair invariant. In every state, and in every render the views
\* observed, selectedYear is null exactly when selectedGenre is null.
C2_PairInvariant ==
    /\ (selectedYear = Null) <=> (selectedGenre = Null)
    /\ \A i \in 1..Len(rendered) :
         (rendered[i].selectedYear = Null) <=> (rendered[i].selectedGenre = Null)

\* a click has cleared the selection while a point is hovered
C2_ClearedWhileHovering ==
    /\ ev[1] = "click"
    /\ rendered[1].selectedYear # Null /\ rendered[1].selectedGenre # Null
    /\ selectedYear = Null /\ selectedGenre = Null
    /\ selectedTrackId # Null

\* C3: direct switch. When a cell is selected and a different cell is
\* clicked, the views observe the old selection and then the new one, and
\* nothing in between.
C3_DirectSwitch ==
    (/\ ev[1] = "click"
     /\ rendered[1].selectedYear # Null
     /\ <<ev[2], ev[3]>> # <<rendered[1].selectedYear, rendered[1].selectedGenre>>)
    => /\ Len(rendered) = 2
       /\ rendered[2].selectedYear = ev[2] /\ rendered[2].selectedGenre = ev[3]
       /\ selectedYear = ev[2] /\ selectedGenre = ev[3]

\* a click has switched the selection to a cell that differs in both year and genre
C3_Switched ==
    /\ ev[1] = "click"
    /\ rendered[1].selectedYear # Null
    /\ ev[2] # rendered[1].selectedYear /\ ev[3] # rendered[1].selectedGenre
    /\ selectedYear = ev[2]

\* C4: hover(id | null) sets the hovered id to its argument and leaves the
\* selection unchanged; a heatmap click leaves the hovered id unchanged.
C4_HoverFrame ==
    [][/\ ev'[1] = "hover" =>
            /\ selectedTrackId' = ev'[2]
            /\ selectedYear' = selectedYear /\ selectedGenre' = selectedGenre
       /\ ev'[1] = "click" => selectedTrackId' = selectedTrackId]_vars

\* the pointer has left a point while a cell is selected
C4_LeftWhileSelected ==
    /\ ev = <<"hover", Null>>
    /\ rendered[1].selectedTrackId # Null
    /\ selectedTrackId = Null
    /\ selectedYear # Null

----------------------------------------------------------------------------
(* Load pipeline (SpecLoad) *)

\* the track_id values of the rows of a sequence
IdsOf(rs) == {Get(rs[i], "track_id") : i \in 1..Len(rs)}

\* the last row of rs whose track_id is id
LastWithId(rs, id) ==
    rs[CHOOSE i \in 1..Len(rs) :
         /\ Get(rs[i], "track_id") = id
         /\ \A j \in (i + 1)..Len(rs) : Get(rs[j], "track_id") # id]

\* the property has a value: it is present and not undefined
HasValue(o, p) == p \in DOMAIN o /\ ~IsNullish(o[p])

\* C5: merge override with retention. For an id in both normalized sources,
\* each field of the merged record is A's value where A's record has one, and
\* B's value where B's record has one and A's record has none.
C5_MergeOverrideRetain ==
    ~loading =>
      \A id \in (IdsOf(a) \cap IdsOf(b)) \ {Undefined} :
        LET ra == LastWithId(preprocessTracks(a), id)
            rb == LastWithId(preprocessTracks(b), id)
            m  == LastWithId(data, id)
        IN  \A p \in DOMAIN ra \cup DOMAIN rb :
              /\ HasValue(ra, p) => Get(m, p) = ra[p]
              /\ (~HasValue(ra, p) /\ HasValue(rb, p)) => Get(m, p) = rb[p]

RowT1Followers == [track_id |-> Str(<<"t", "1">>), artist_followers |-> Str(<<"9", "9", "9">>)]
RowT1Popularity == [track_id |-> Str(<<"t", "1">>), artist_popularity |-> Str(<<"4", "0">>)]

\* C6: end-to-end load. A holds t1 with artist_followers "999" and no
\* artist_popularity, B holds t1 with artist_popularity "40" and no
\* artist_followers: the record of t1 has artist_followers = 999,
\* followers_log = log10(1000) = 3 and artist_popularity = 40.
C6_EndToEnd ==
    (~loading /\ a = <<RowT1Followers>> /\ b = <<RowT1Popularity>>) =>
      /\ Len(data) = 1
      /\ data[1]["artist_followers"] = Num(999)
      /\ data[1]["followers_log"] = Num(3)
      /\ data[1]["artist_popularity"] = Num(40)

\* C7: an id that occurs only in B is in the dataset once, with B's
\* normalized record for it (that of its last row in B).
C7_BOnlySurvives ==
    ~loading =>
      \A id \in IdsOf(b) \ IdsOf(a) :
        /\ Cardinality({i \in 1..Len(data) : Get(data[i], "track_id") = id}) = 1
        /\ LastWithId(data, id) = LastWithId(preprocessTracks(b), id)

\* the load has merged a non-empty A with a B that holds an id A lacks
C7_BOnlyLoaded ==
    /\ ~loading
    /\ a # <<>>
    /\ \E id \in IdsOf(b) \ IdsOf(a) : id # Undefined /\ id \in IdsOf(data)
    /\ IdsOf(a) \cap IdsOf(b) # {}

\* C8: identifier uniqueness. No two records of the dataset share a
\* track_id, and the ids of the dataset are exactly those of A and B.
C8_UniqueIds ==
    ~loading =>
      /\ \A i, j \in 1..Len(data) :
           Get(data[i], "track_id") = Get(data[j], "track_id") => i = j
      /\ IdsOf(data) = IdsOf(a) \cup IdsOf(b)

\* the load has merged sources that repeat an id internally and share an id
C8_RepeatedAndShared ==
    /\ ~loading
    /\ Len(a) > Cardinality(IdsOf(a))
    /\ Len(b) > Cardinality(IdsOf(b))
    /\ IdsOf(a) \cap IdsOf(b) # {}
    /\ Len(data) = 1

----------------------------------------------------------------------------
(* Row normalizer (SpecNorm) *)

\* C9: the five numeric fields of a normalized row are finite numbers, and
\* are 0 when the raw value is missing or no finite number.
C9_NumericTotal ==
    tracks # <<>> =>
      \A c \in NumericCols :
        /\ TypeOf(tracks[1][c]) = "number"
        /\ (c \notin DOMAIN rows[1] \/ TypeOf(Number(Get(rows[1], c))) # "number")
             => tracks[1][c] = Num(0)

\* a row with one numeric column missing and another holding a text that is no number
C9_MissingAndText ==
    /\ tracks # <<>>
    /\ "track_popularity" \in DOMAIN rows[1] /\ rows[1]["track_popularity"] = Str(<<"a", "b", "c">>)
    /\ "artist_popularity" \notin DOMAIN rows[1]
    /\ tracks[1]["track_popularity"] = Num(0) /\ tracks[1]["artist_popularity"] = Num(0)

C11_ReleaseYear ==
    tracks # <<>> =>
      LET d == Get(rows[1], "album_release_date")
          y == tracks[1]["release_year"]
          four == SubSeq(d[2], 1, 4)
      IN  /\ y # Undefined =>
                /\ TypeOf(y) = "number" /\ y[2] >= 1900 /\ y[2] <= currentYear + 1
                /\ TypeOf(d) = "string" /\ Len(d[2]) >= 4
                /\ y = Number(Str(four))
          /\ (TypeOf(d) = "string" /\ Len(d[2]) >= 4 /\ (\A i \in 1..4 : four[i] \in DigitSet)
                /\ DecVal(four) >= 1900 /\ DecVal(four) <= currentYear + 1) => y = Num(DecVal(four))
          /\ (TypeOf(d) # "string" \/ Len(d[2]) < 4) => y = Undefined
          /\ (TypeOf(d) = "string" /\ Len(d[2]) >= 4 /\ (\A i \in 1..4 : four[i] \in DigitSet)
                /\ (DecVal(four) < 1900 \/ DecVal(four) > currentYear + 1)) => y = Undefined
          /\ d = Str(<<"2", "0", "2", "1", "-", "0", "5", "-", "0", "1">>) => y = Num(2021)
          /\ d \in {Str(<<"9", "9">>), Str(<<"1", "8", "9", "9", "-", "0", "1", "-", "0", "1">>), Str(<<"2", "9", "9", "9", "-", "0", "1", "-", "0", "1">>)} => y = Undefined
          /\ d = Str(<<"1", "9", "0", "0", "-", "0", "1", "-", "0", "1">>) => y = Num(1900)
          /\ d = Str(<<"2", "0", "2", "7", "-", "1", "2", "-", "3", "1">>) => y = Num(currentYear + 1)

\* a row whose date starts with 1899 has been normalized, and its year is absent
C11_YearBelowRange ==
    /\ tracks # <<>>
    /\ Get(rows[1], "album_release_date") = Str(<<"1", "8", "9", "9", "-", "0", "1", "-", "0", "1">>)
    /\ tracks[1]["release_year"] = Undefined

\* C12: duration_min is the minutes column's value when that column holds a
\* finite number, otherwise track_duration_ms / 60000 when the milliseconds
\* column holds a finite number, otherwise absent; a row with usable
\* milliseconds and a missing or empty minutes cell gets ms / 60000.
C12_DurationDerivation ==
    tracks # <<>> =>
      LET min == Get(rows[1], "track_duration_min")
          ms  == Get(rows[1], "track_duration_ms")
          d   == tracks[1]["duration_min"]
          \* the cell is a text that is not blank and reads as a finite number
          HoldsFiniteNumber(x) ==
              TypeOf(x) = "string" /\ Trim(x[2]) # <<>> /\ IsFinite(Number(x))
      IN  IF HoldsFiniteNumber(min) THEN d = Number(min)
          ELSE IF HoldsFiniteNumber(ms) THEN d = DivBy(Number(ms), 60000)
          ELSE d = Undefined

\* C13: genre_top is a non-empty string; it is "Unknown" for an empty or
\* blank artist_genres, for "[]" and when no non-empty piece remains;
\* otherwise it is the first comma-separated piece, taken after removing one
\* leading '[' and one trailing ']', trimmed and stripped of one leading and
\* one trailing quote, that is non-empty, with its case preserved.
C13_GenreTop ==
    tracks # <<>> =>
      LET raw == Get(rows[1], "artist_genres")
          g   == IF IsNullish(raw) THEN <<>> ELSE raw[2]
          top == tracks[1]["genre_top"]
          inner  == Trim(StripTrailing(StripLeading(Trim(g), {"["}), {"]"}))
          pieces == Split(inner, ",")
          piece(i) == StripTrailing(StripLeading(Trim(pieces[i]), Quotes), Quotes)
          kept   == {i \in 1..Len(pieces) : piece(i) # <<>>}
      IN  /\ TypeOf(top) = "string" /\ top[2] # <<>>
          /\ (Trim(g) = <<>> \/ Trim(g) = <<"[", "]">>) => top = Unknown
          /\ kept = {} => top = Unknown
          /\ kept # {} => \E i \in kept : (\A j \in kept : i <= j) /\ top = Str(piece(i))
          /\ g = Str(<<"[", "'", "p", "o", "p", "'", ",", " ", "'", "d", "a", "n", "c", "e", " ", "p", "o", "p", "'", "]">>)[2] => top = Str(<<"p", "o", "p">>)
          /\ g = Str(<<"[", "'", "H", "i", "p", "-", "H", "o", "p", "'", "]">>)[2] => top = Str(<<"H", "i", "p", "-", "H", "o", "p">>)
          /\ g = Str(<<"[", "'", "'", ",", " ", "'", "r", "o", "c", "k", "'", "]">>)[2] => top = Str(<<"r", "o", "c", "k">>)
          /\ g = Str(<<"[", "\"", "j", "a", "z", "z", "\"", "]">>)[2] => top = Str(<<"j", "a", "z", "z">>)
          /\ g = Str(<<"p", "o", "p">>)[2] => top = Str(<<"p", "o", "p">>)

\* a list whose first piece is empty has been normalized to its second piece
C13_SkippedEmptyPiece ==
    /\ tracks # <<>>
    /\ Get(rows[1], "artist_genres") = Str(<<"[", "'", "'", ",", " ", "'", "r", "o", "c", "k", "'", "]">>)
    /\ tracks[1]["genre_top"] = Str(<<"r", "o", "c", "k">>)

----------------------------------------------------------------------------
(* topKGenres (SpecTopK) *)

\* C14: topKGenres returns exactly min(k, number of distinct labels) labels;
\* every returned label occurs at least as often as every label not
\* returned, and of two labels with equal counts the one met first in the
\* input is preferred; k = 2 over [a,a,a,b,b,c] returns {a, b}.
C14_TopK ==
    topGenres # <<>> =>
      LET label(i) == GenreOrUnknown(tracks[i])
          labels   == {label(i) : i \in 1..Len(tracks)}
          count(g) == Cardinality({i \in 1..Len(tracks) : label(i) = g})
          first(g) == CHOOSE i \in 1..Len(tracks) :
                          label(i) = g /\ \A j \in 1..(i - 1) : label(j) # g
          ret      == topGenres[1]
      IN  /\ ret \subseteq labels
          /\ Cardinality(ret) = IF kArg < Cardinality(labels) THEN kArg ELSE Cardinality(labels)
          /\ \A x \in ret, y \in labels \ ret :
                \/ count(x) > count(y)
                \/ count(x) = count(y) /\ first(x) < first(y)
          /\ ([i \in 1..Len(tracks) |-> label(i)]
                  = <<GenreA, GenreA, GenreA, GenreB, GenreB, GenreC>> /\ kArg = 2)
                => ret = {GenreA, GenreB}

\* two labels tie on count and k = 1 has kept the one met first
C14_TieKeepsFirst ==
    /\ topGenres = <<{GenreB}>> /\ kArg = 1
    /\ Len(tracks) = 3
    /\ GenreOrUnknown(tracks[1]) = GenreB
    /\ GenreOrUnknown(tracks[2]) = GenreA
    /\ GenreOrUnknown(tracks[3]) = Unknown

----------------------------------------------------------------------------
(* Coordinated views (SpecViews) *)

\* C15: cross-view bucket consistency. Under every active selection
\* (selectedYear, selectedGenre), each track that the three views consider
\* is mapped to the same bucket label, its genre_top or "Other", by the
\* heatmap, by the scatter view's filter and by the parallel-coordinates
\* view's filter.
C15_SameBucket ==
    (~loading /\ selectedYear # Null /\ selectedGenre # Null) =>
      LET sc == ScatterYearRows(data, selectedYear)
          pc == PCYearRows(data, selectedYear)
          hm == HeatmapRows(data)
      IN  \A i \in 1..Len(data) :
            ( /\ \E j \in 1..Len(hm) : hm[j] = data[i]
              /\ \E j \in 1..Len(sc) : sc[j] = data[i]
              /\ \E j \in 1..Len(pc) : pc[j] = data[i] )
            => /\ HeatmapBucket(data, data[i]) = ScatterBucket(data, selectedYear, data[i])
               /\ HeatmapBucket(data, data[i]) = PCBucket(data, selectedYear, data[i])

\* C16: coordinated filtering of the scatter plot. While a clicked heatmap
\* cell (year, genre) is the active selection, every track the scatter plot
\* displays is one the heatmap counted in that cell: its release_year is
\* year and its heatmap bucket is genre.
C16_ScatterWithinCell ==
    (~loading /\ selectedYear # Null /\ selectedGenre # Null) =>
      LET shown == ScatterFiltered(data, selectedYear, selectedGenre)
          hm    == HeatmapRows(data)
      IN  \A i \in 1..Len(shown) :
            /\ \E j \in 1..Len(hm) : hm[j] = shown[i]
            /\ Get(shown[i], "release_year") = selectedYear
            /\ HeatmapBucket(data, shown[i]) = selectedGenre

\* C17: same subset in both focus views. In every selection state the track
\* ids matched by the parallel-coordinates view's year/genre filter are the
\* track ids matched by the scatter plot's year/genre filter, before either
\* view's display cap.
C17_SameSubset ==
    ~loading =>
      LET pc == PCMatched(data, selectedYear, selectedGenre)
          sc == ScatterMatched(data, selectedYear, selectedGenre)
      IN  {Get(pc[i], "track_id") : i \in 1..Len(pc)}
            = {Get(sc[i], "track_id") : i \in 1..Len(sc)}

\* C18: linked highlighting. Whenever a track displayed in the scatter plot
\* is hovered, the parallel-coordinates view has a polyline for that track,
\* draws it emphasized and draws every other polyline faded; it never fades
\* every polyline without emphasizing one (stated for a hovered id that is
\* not empty and for the renders in which the parallel-coordinates view
\* draws at least one polyline).
C18_LinkedHighlight ==
    ( /\ ~loading /\ selectedTrackId # Null /\ selectedTrackId # Str(<<>>)
      /\ selectedTrackId \in ScatterPointIds(data, selectedYear, selectedGenre)
      /\ PCSample(data, selectedYear, selectedGenre) # <<>> ) =>
      LET sample == PCSample(data, selectedYear, selectedGenre)
      IN  /\ \E i \in 1..Len(sample) :
                /\ Get(sample[i], "track_id") = selectedTrackId
                /\ PCOpacity(selectedTrackId, sample[i]) = 85
          /\ \A i \in 1..Len(sample) :
                Get(sample[i], "track_id") # selectedTrackId
                  => PCOpacity(selectedTrackId, sample[i]) = 6

----------------------------------------------------------------------------
(* Loading (Spec) *)

\* C19: load join. Both fetches are started in the same step, before either
\* result is awaited; loading and data change only in a step taken when both
\* fetches are fulfilled, whichever settled first, and that step sets data to
\* the merge of both sources; data is never set from one source alone.
C19_LoadJoin ==
    [][ /\ (fetchA = "idle" /\ fetchA' # "idle") <=> (fetchB = "idle" /\ fetchB' # "idle")
        /\ (fetchA' # fetchA /\ fetchA # "idle") => fetchB # "idle"
        /\ (fetchB' # fetchB /\ fetchB # "idle") => fetchA # "idle"
        /\ (data' # data \/ loading' # loading) =>
              /\ fetchA = "fulfilled" /\ fetchB = "fulfilled"
              /\ data' = mergedData(a, b) /\ loading' = FALSE
              /\ UNCHANGED <<fetchA, fetchB>> ]_vars

\* the second file has arrived while the first is still in flight, and
\* nothing has been set from it
C19_OneSourceArrived ==
    /\ fetchA = "pending" /\ fetchB = "fulfilled" /\ b # <<>> /\ a # <<>>
    /\ loading /\ data = <<>>

\* C20: load failure stalls. Once either fetch has failed, whatever the other
\* does, loading stays true, data stays the empty list, no view is rendered
\* (no view callback ever runs and no selection is made), the failed fetch
\* is never started again, and the fetch states are the only trace of the
\* failure.
C20_FailureStalls ==
    [][ /\ (fetchA = "rejected" => fetchA' = "rejected")
        /\ (fetchB = "rejected" => fetchB' = "rejected")
        /\ (fetchA' = "rejected" \/ fetchB' = "rejected") =>
              /\ loading' = TRUE /\ data' = <<>>
              /\ ev' = <<"none">> /\ rendered' = <<>>
              /\ selectedYear' = Null /\ selectedGenre' = Null /\ selectedTrackId' = Null
              /\ pointerOver' = Null /\ tooltip' = Null ]_vars

\* the first fetch has failed after the second one succeeded, and the
\* dashboard still shows the loading placeholder
C20_FailedAfterSuccess ==
    /\ fetchA = "rejected" /\ fetchB = "fulfilled" /\ a # <<>> /\ b # <<>>
    /\ loading /\ data = <<>>

----------------------------------------------------------------------------
(* Dataset and load (Spec) *)

\* C21: write-once dataset. data is assigned only by the step that ends the
\* loading, which happens once; after it no click, hover, tooltip or render
\* changes the records of data or any field of them.
C21_WriteOnce ==
    [][ /\ data' # data => (loading /\ ~loading' /\ data = <<>> /\ data' = mergedData(a, b))
        /\ ~loading => (data' = data /\ ~loading') ]_vars

\* a loaded dataset on which a cell has been clicked and a point is hovered
C21_UsedAfterLoad ==
    /\ ~loading /\ Len(data) = 3 /\ data = mergedData(a, b)
    /\ selectedYear # Null /\ selectedTrackId # Null /\ tooltip # Null

\* C22: merge iteration order. data lists each track_id once: first the ids
\* of source B in the order of their first occurrence in B (an id that is
\* also in A keeps that place), then the ids that occur only in A in the
\* order of their first occurrence in A.
C22_MergeOrder ==
    ~loading =>
      LET id(i)        == Get(data[i], "track_id")
          first(rs, k) == CHOOSE i \in 1..Len(rs) :
                             Get(rs[i], "track_id") = k
                               /\ \A j \in 1..(i - 1) : Get(rs[j], "track_id") # k
          place(k)     == IF k \in IdsOf(b) THEN first(b, k) ELSE Len(b) + first(a, k)
      IN  /\ {id(i) : i \in 1..Len(data)} = IdsOf(a) \cup IdsOf(b)
          /\ \A i, j \in 1..Len(data) : i < j => place(id(i)) < place(id(j))

\* A lists t1 then t2, B holds t2 only: the merged data lists t2 before t1
C22_BPlaceKept ==
    /\ ~loading /\ Len(a) = 2 /\ Len(b) = 1 /\ Len(data) = 2
    /\ Get(a[1], "track_id") = Str(<<"t", "1">>) /\ Get(a[2], "track_id") = Str(<<"t", "2">>)
    /\ Get(b[1], "track_id") = Str(<<"t", "2">>)
    /\ Get(data[1], "track_id") = Str(<<"t", "2">>) /\ Get(data[2], "track_id") = Str(<<"t", "1">>)

----------------------------------------------------------------------------
(* Highlighting (SpecViews) *)

----------------------------------------------------------------------------
(* Tooltip placement (SpecTip) *)

\* C24: the tooltip stays inside its container. For every pointer position
\* inside the container, computeTipPos returns (x, y) with x >= 0, y >= 0,
\* x + tipW <= container.width and y + tipH <= container.height (stated for
\* the containers that are at least as large as the tooltip).
C24_TipInside ==
    (tipPos # <<>> /\ tipArgs.tipW <= tipArgs.container.width
                   /\ tipArgs.tipH <= tipArgs.container.height) =>
      LET p == tipPos[2]
      IN  /\ p.x >= 0 /\ p.y >= 0
          /\ p.x + tipArgs.tipW <= tipArgs.container.width
          /\ p.y + tipArgs.tipH <= tipArgs.container.height

----------------------------------------------------------------------------
(* Load liveness (SpecLive) *)

\* C25: load liveness. Once both fetches have completed successfully,
\* loading eventually becomes false with data equal to the merged dataset,
\* and from then on loading never becomes true again.
C25_LoadLiveness ==
    /\ (fetchA = "fulfilled" /\ fetchB = "fulfilled")
          ~> (~loading /\ data = mergedData(a, b))
    /\ [](~loading => [](~loading /\ data = mergedData(a, b)))

\* both files have arrived and the merged dataset of two tracks is shown
C25_Loaded ==
    /\ fetchA = "fulfilled" /\ fetchB = "fulfilled"
    /\ ~loading /\ data = mergedData(a, b) /\ Len(data) = 2

----------------------------------------------------------------------------
(* Derived fields after the merge (SpecDerived) *)

\* C26: derived fields stay consistent with their base fields after the
\* merge. In every record of data, genre_top is parseGenresTop of that
\* record's artist_genres, release_year is the year derived from that
\* record's album_release_date, and followers_log is log10 of that record's
\* artist_followers + 1.
C26_DerivedConsistent ==
    ~loading =>
      \A i \in 1..Len(data) :
        LET d      == data[i]
            genres == Get(d, "artist_genres")
        IN  /\ d["genre_top"]
                 = parseGenresTop(IF IsNullish(genres) THEN <<>> ELSE StringOf(genres))
            /\ d["release_year"] = releaseYearOf(Get(d, "album_release_date"))
            /\ d["followers_log"] = followersLogOf(d["artist_followers"])

----------------------------------------------------------------------------
(* Heatmap selection (SpecViews) *)

\* C27: the selection always names an existing heatmap cell. With a
\* selection, selectedYear is a year of the heatmap's x axis and
\* selectedGenre one of its bucket labels, exactly one cell is drawn as
\* selected and every other cell dimmed; with no selection no cell is dimmed.
C27_SelectionIsACell ==
    ~loading =>
      LET cells  == HeatmapCells(data)
          op(c)  == HeatmapCellOpacity(selectedYear, selectedGenre, c[1], c[2])
      IN  /\ (selectedYear # Null \/ selectedGenre # Null) =>
                /\ selectedYear \in HeatmapYears(data)
                /\ selectedGenre \in HeatmapGenres(data)
                /\ Cardinality({c \in cells : op(c) = 100}) = 1
                /\ \A c \in cells : op(c) = 100 <=> c = <<selectedYear, selectedGenre>>
                /\ \A c \in cells : op(c) # 100 => op(c) = 25
          /\ (selectedYear = Null /\ selectedGenre = Null) =>
                \A c \in cells : op(c) = 100

\* the "Other" cell of a year is the selection, among cells of two years
C27_OtherCellSelected ==
    /\ ~loading /\ selectedGenre = Other /\ selectedYear # Null
    /\ Cardinality(HeatmapYears(data)) = 2
    /\ Cardinality(HeatmapGenres(data)) = TopK + 1

----------------------------------------------------------------------------
(* Interaction and loading (Spec) *)

\* C28: no interaction before data. While loading is true no click or hover
\* transition occurs and the selection state stays (null, null, null);
\* whenever loading is false data is the normalized and merged dataset; and
\* at the step that makes loading false the selection state is
\* (null, null, null).
C28_NoInteractionBeforeData ==
    /\ [](loading => (Idle /\ data = <<>>))
    /\ [](~loading => data = mergedData(a, b))
    /\ [][ /\ loading => /\ ev' = <<"none">> /\ rendered' = <<>>
                         /\ UNCHANGED <<selectedYear, selectedGenre, selectedTrackId,
                                        pointerOver, tooltip>>
           /\ (loading /\ ~loading') =>
                 /\ selectedYear' = Null /\ selectedGenre' = Null /\ selectedTrackId' = Null
                 /\ data' = mergedData(a, b) ]_vars

\* the views have just been mounted on a loaded dataset and nothing has
\* been clicked or hovered yet
C28_JustLoaded ==
    /\ ~loading /\ data # <<>> /\ Idle
    /\ HeatmapCells(data) # {} /\ ScatterPointIds(data, Null, Null) # {}

----------------------------------------------------------------------------
(* Heatmap top genres against topKGenres (SpecTopK) *)

\* C29: on every list of rows that carry a genre_top, the heatmap's own
\* top-k computation (group counts, sort by count descending, take the first
\* k) returns the set of labels that topKGenres returned for that list and
\* that k, also when several labels tie at the cut-off.
C29_HeatmapTopIsTopK ==
    (topGenres # <<>> /\ \A i \in 1..Len(tracks) : ~IsNullish(Get(tracks[i], "genre_top")))
      => HeatmapTopOf(tracks, kArg) = topGenres[1]

\* three labels tie on count and both computations have kept the first two
C29_TieAtCutOff ==
    /\ kArg = 2 /\ Len(tracks) = 3
    /\ Get(tracks[1], "genre_top") = GenreC
    /\ Get(tracks[2], "genre_top") = GenreA
    /\ Get(tracks[3], "genre_top") = GenreB
    /\ topGenres = <<{GenreC, GenreA}>>
    /\ HeatmapTopOf(tracks, kArg) = {GenreC, GenreA}

----------------------------------------------------------------------------
(* Hover against filter changes (Spec) *)

\* C30: hover is never stale. Under every interleaving of scatter
\* pointerenter/pointerleave and heatmap clicks, a hoveredId that is not null
\* is the track_id of a point the scatter plot currently displays, and while
\* the pointer is over no scatter point hoveredId is null and the scatter
\* tooltip is hidden.
C30_HoverNeverStale ==
    ~loading =>
        /\ selectedTrackId # Null
             => selectedTrackId \in ScatterPointIds(data, selectedYear, selectedGenre)
        /\ pointerOver = Null => (selectedTrackId = Null /\ tooltip = Null)

====
